---- MODULE Spec2Model ----
(***************************************************************************)
(* terraform-provider-cassandra: the keyspace, role and grant resource     *)
(* handlers over a Cassandra cluster.                                      *)
(*                                                                         *)
(* Text is a sequence of one-character strings, so that formatting,        *)
(* template rendering and escaping are computed character by character.    *)
(* A Go pointer is a sequence of length 0 (nil) or 1; a Go error is a      *)
(* string token, "nil" for no error.                                       *)
(***************************************************************************)
EXTENDS Integers, Sequences, FiniteSets, TLC

VARIABLES
    d,          \* schema.ResourceData of the resource instance being handled
    cluster,    \* what the Cassandra cluster holds
    ret,        \* the last handler called and what it returned
    io,         \* what that handler did to the driver while it ran
    plan,       \* the last schema diff the SDK planned for a grant
    tables,     \* the package-level lookup tables
    diags,      \* what the last schema validation said of each attribute
    meta,       \* what configureProvider returned, <<>> before it ran
    granted     \* history: the Grants whose last successful change was Create

vars == <<d, cluster, ret, io, plan, tables, diags, meta, granted>>

----------------------------------------------------------------------------
(* Bounds of the model *)

\* longest free-text attribute value
MaxLen == 1

----------------------------------------------------------------------------
(* Text helpers *)

RECURSIVE Flatten(_)
Flatten(ss) == IF ss = <<>> THEN <<>> ELSE Head(ss) \o Flatten(Tail(ss))

\* all texts over alphabet A of length 0..n
RECURSIVE TextUpTo(_, _)
TextUpTo(A, n) ==
    IF n = 0 THEN {<<>>}
    ELSE LET shorter == TextUpTo(A, n - 1)
         IN  shorter \cup {Append(s, c) : s \in shorter, c \in A}

StartsWith(s, p) == Len(s) >= Len(p) /\ SubSeq(s, 1, Len(p)) = p

\* the text of n characters c
Repeat(c, n) == [i \in 1..n |-> c]

\* the positions at which p occurs in s
Occurrences(s, p) ==
    {i \in 1..(Len(s) - Len(p) + 1) : SubSeq(s, i, i + Len(p) - 1) = p}

Contains(s, p) == Occurrences(s, p) # {}

Min(S) == CHOOSE x \in S : \A y \in S : x <= y

Letters ==
    {"a", "b", "c", "d", "e", "f", "g", "h", "i", "j", "k", "l", "m",
     "n", "o", "p", "q", "r", "s", "t", "u", "v", "w", "x", "y", "z",
     "A", "B", "C", "D", "E", "F", "G", "H", "I", "J", "K", "L", "M",
     "N", "O", "P", "Q", "R", "S", "T", "U", "V", "W", "X", "Y", "Z"}

Digits == {"0", "1", "2", "3", "4", "5", "6", "7", "8", "9"}

----------------------------------------------------------------------------
(* resource_cassandra_grant.go: constants and package-level tables *)

privilegeAll ==
    <<"a", "l", "l">>
privilegeCreate ==
    <<"c", "r", "e", "a", "t", "e">>
privilegeAlter ==
    <<"a", "l", "t", "e", "r">>
privilegeDrop ==
    <<"d", "r", "o", "p">>
privilegeSelect ==
    <<"s", "e", "l", "e", "c", "t">>
privilegeModify ==
    <<"m", "o", "d", "i", "f", "y">>
privilegeAuthorize ==
    <<"a", "u", "t", "h", "o", "r", "i", "z", "e">>
privilegeDescribe ==
    <<"d", "e", "s", "c", "r", "i", "b", "e">>
privilegeExecute ==
    <<"e", "x", "e", "c", "u", "t", "e">>

resourceAllFunctions ==
    <<"a", "l", "l", " ", "f", "u", "n", "c", "t", "i", "o", "n", "s">>
resourceAllFunctionsInKeyspace ==
    <<"a", "l", "l", " ", "f", "u", "n", "c", "t", "i", "o", "n", "s", " ",
      "i", "n", " ", "k", "e", "y", "s", "p", "a", "c", "e">>
resourceFunction ==
    <<"f", "u", "n", "c", "t", "i", "o", "n">>
resourceAllKeyspaces ==
    <<"a", "l", "l", " ", "k", "e", "y", "s", "p", "a", "c", "e", "s">>
resourceKeyspace ==
    <<"k", "e", "y", "s", "p", "a", "c", "e">>
resourceTable ==
    <<"t", "a", "b", "l", "e">>
resourceAllRoles ==
    <<"a", "l", "l", " ", "r", "o", "l", "e", "s">>
resourceRole ==
    <<"r", "o", "l", "e">>
resourceRoles ==
    <<"r", "o", "l", "e", "s">>
resourceMbean ==
    <<"m", "b", "e", "a", "n">>
resourceMbeans ==
    <<"m", "b", "e", "a", "n", "s">>
resourceAllMbeans ==
    <<"a", "l", "l", " ", "m", "b", "e", "a", "n", "s">>

identifierFunctionName == "function_name"
identifierTableName == "table_name"
identifierMbeanName == "mbean_name"
identifierMbeanPattern == "mbean_pattern"
identifierRoleName == "role_name"
identifierKeyspaceName == "keyspace_name"
identifierGrantee == "grantee"
identifierPrivilege == "privilege"
identifierResourceType == "resource_type"

allPrivileges ==
    <<privilegeSelect, privilegeCreate, privilegeAlter, privilegeDrop,
      privilegeModify, privilegeAuthorize, privilegeDescribe, privilegeExecute>>

allResources ==
    <<resourceAllFunctions, resourceAllFunctionsInKeyspace, resourceFunction,
      resourceAllKeyspaces, resourceKeyspace, resourceTable, resourceAllRoles,
      resourceRole, resourceRoles, resourceMbean, resourceMbeans,
      resourceAllMbeans>>

\* a Go map is a function on its keys; a lookup of a missing key gives the
\* zero value of the element type
MapGet(m, k, zero) == IF k \in DOMAIN m THEN m[k] ELSE zero

Range(s) == {s[i] : i \in DOMAIN s}

privilegeToResourceTypesMap ==
    [p \in {privilegeAll, privilegeCreate, privilegeAlter, privilegeDrop,
            privilegeSelect, privilegeModify, privilegeAuthorize,
            privilegeDescribe, privilegeExecute} |->
        CASE p = privilegeAll ->
                <<resourceAllFunctions, resourceAllFunctionsInKeyspace,
                  resourceFunction, resourceAllKeyspaces, resourceKeyspace,
                  resourceTable, resourceAllRoles, resourceRole>>
          [] p = privilegeCreate ->
                <<resourceAllKeyspaces, resourceKeyspace, resourceAllFunctions,
                  resourceAllFunctionsInKeyspace, resourceAllRoles>>
          [] p = privilegeAlter ->
                <<resourceAllKeyspaces, resourceKeyspace, resourceTable,
                  resourceAllFunctions, resourceAllFunctionsInKeyspace,
                  resourceFunction, resourceAllRoles, resourceRole>>
          [] p = privilegeDrop ->
                <<resourceKeyspace, resourceTable, resourceAllFunctions,
                  resourceAllFunctionsInKeyspace, resourceFunction,
                  resourceAllRoles, resourceRole>>
          [] p = privilegeSelect ->
                <<resourceAllKeyspaces, resourceKeyspace, resourceTable,
                  resourceAllMbeans, resourceMbeans, resourceMbean>>
          [] p = privilegeModify ->
                <<resourceAllKeyspaces, resourceKeyspace, resourceTable,
                  resourceAllMbeans, resourceMbeans, resourceMbean>>
          [] p = privilegeAuthorize ->
                <<resourceAllKeyspaces, resourceKeyspace, resourceTable,
                  resourceFunction, resourceAllFunctions,
                  resourceAllFunctionsInKeyspace, resourceAllRoles,
                  resourceRoles>>
          [] p = privilegeDescribe ->
                <<resourceAllRoles, resourceAllMbeans>>
          [] p = privilegeExecute ->
                <<resourceAllFunctions, resourceAllFunctionsInKeyspace,
                  resourceFunction>>]

validResources == [r \in Range(allResources) |-> TRUE]

resourcesThatRequireKeyspaceQualifier ==
    <<resourceAllFunctionsInKeyspace, resourceFunction, resourceKeyspace,
      resourceTable>>

\* a variant of resourceTypeToIdentifier with two identifier fields swapped
resourceTypeToIdentifier_Swapped ==
    [r \in {resourceFunction, resourceMbean, resourceMbeans, resourceTable,
            resourceRole} |->
        CASE r = resourceFunction -> identifierFunctionName
          [] r = resourceMbean -> identifierMbeanPattern
          [] r = resourceMbeans -> identifierMbeanName
          [] r = resourceTable -> identifierTableName
          [] r = resourceRole -> identifierRoleName]

resourceTypeToIdentifier ==
    [r \in {resourceFunction, resourceMbean, resourceMbeans, resourceTable,
            resourceRole} |->
        CASE r = resourceFunction -> identifierFunctionName
          [] r = resourceMbean -> identifierMbeanName
          [] r = resourceMbeans -> identifierMbeanPattern
          [] r = resourceTable -> identifierTableName
          [] r = resourceRole -> identifierRoleName]

\* type Grant struct
Grant(privilege, resourceType, grantee, keyspace, identifier) ==
    [Privilege |-> privilege, ResourceType |-> resourceType,
     Grantee |-> grantee, Keyspace |-> keyspace, Identifier |-> identifier]

----------------------------------------------------------------------------
(* parseData: the validation of a grant's resource data *)

ErrNotApplicable == "resource not applicable for privilege"
ErrNotApplicableValid ==
    "resource not applicable for privilege - valid resourceTypes are"
ErrKeyspaceNotSet == "keyspace name must be set for resourceType"
ErrIdentifierNotSet == "identifier needs to be set for resourceType"

\* a variant of matchFound that accepts every resource type
matchFound_Always(allowedResouceTypesForPrivilege, resourceType) == TRUE

\* the loop over the resource types allowed for the privilege
matchFound(allowedResouceTypesForPrivilege, resourceType) ==
    \E i \in DOMAIN allowedResouceTypesForPrivilege :
        allowedResouceTypesForPrivilege[i] = resourceType

\* a variant of requiresKeyspaceQualifier that holds of every resource type
requiresKeyspaceQualifier_Always(resourceType) == TRUE

\* a variant of requiresKeyspaceQualifier that leaves out the table
requiresKeyspaceQualifier_NoTable(resourceType) ==
    \E i \in DOMAIN resourcesThatRequireKeyspaceQualifier :
        /\ resourceType = resourcesThatRequireKeyspaceQualifier[i]
        /\ resourceType # resourceTable

\* the loop over resourcesThatRequireKeyspaceQualifier
requiresKeyspaceQualifier(resourceType) ==
    \E i \in DOMAIN resourcesThatRequireKeyspaceQualifier :
        resourceType = resourcesThatRequireKeyspaceQualifier[i]

parseData(data) ==
    LET privilege == data[identifierPrivilege]
        grantee == data[identifierGrantee]
        resourceType == data[identifierResourceType]
        allowedResouceTypesForPrivilege ==
            MapGet(privilegeToResourceTypesMap, privilege, <<>>)
        keyspaceName ==
            IF requiresKeyspaceQualifier(resourceType)
            THEN data[identifierKeyspaceName]
            ELSE <<>>
        identifierKey == MapGet(resourceTypeToIdentifier, resourceType, "")
        identifier ==
            IF identifierKey # "" THEN data[identifierKey] ELSE <<>>
    IN  IF Len(allowedResouceTypesForPrivilege) <= 0
        THEN [grant |-> <<>>, err |-> ErrNotApplicable]
        ELSE IF ~matchFound(allowedResouceTypesForPrivilege, resourceType)
        THEN [grant |-> <<>>, err |-> ErrNotApplicableValid]
        ELSE IF requiresKeyspaceQualifier(resourceType) /\ keyspaceName = <<>>
        THEN [grant |-> <<>>, err |-> ErrKeyspaceNotSet]
        ELSE IF identifierKey # "" /\ identifier = <<>>
        THEN [grant |-> <<>>, err |-> ErrIdentifierNotSet]
        ELSE [grant |-> <<Grant(privilege, resourceType, grantee,
                                keyspaceName, identifier)>>,
              err |-> "nil"]

----------------------------------------------------------------------------
(* The three statement templates and their execution by html/template *)

Text(s) == [t |-> "text", s |-> s]
Field(f) == [t |-> "field", f |-> f]
\* {{if and .A .B}}body{{end}}: the body is rendered when every field named
\* is a non-empty string
If(fs, body) == [t |-> "if", fs |-> fs, body |-> body]

deleteGrantRawTemplate ==
    << Text(<<"R", "E", "V", "O", "K", "E", " ">>), Field("Privilege"),
       Text(<<" ", "O", "N", " ">>), Field("ResourceType"), Text(<<" ">>),
       If({"Keyspace"}, <<Text(<<"\"">>), Field("Keyspace"), Text(<<"\"">>)>>),
       If({"Keyspace", "Identifier"}, <<Text(<<".">>)>>),
       If({"Identifier"},
          <<Text(<<"\"">>), Field("Identifier"), Text(<<"\"">>)>>),
       Text(<<" ", "F", "R", "O", "M", " ", "\"">>), Field("Grantee"),
       Text(<<"\"">>) >>

createGrantRawTemplate ==
    << Text(<<"G", "R", "A", "N", "T", " ">>), Field("Privilege"),
       Text(<<" ", "O", "N", " ">>), Field("ResourceType"), Text(<<" ">>),
       If({"Keyspace"}, <<Text(<<"\"">>), Field("Keyspace"), Text(<<"\"">>)>>),
       If({"Keyspace", "Identifier"}, <<Text(<<".">>)>>),
       If({"Identifier"},
          <<Text(<<"\"">>), Field("Identifier"), Text(<<"\"">>)>>),
       Text(<<" ", "T", "O", " ", "\"">>), Field("Grantee"),
       Text(<<"\"">>) >>

\* a variant of readGrantRawTemplate without the dot between keyspace and
\* identifier
readGrantRawTemplate_NoDot ==
    << Text(<<"L", "I", "S", "T", " ">>), Field("Privilege"),
       Text(<<" ", "O", "N", " ">>), Field("ResourceType"), Text(<<" ">>),
       If({"Keyspace"}, <<Text(<<"\"">>), Field("Keyspace"), Text(<<"\"">>)>>),
       If({"Identifier"},
          <<Text(<<"\"">>), Field("Identifier"), Text(<<"\"">>)>>),
       Text(<<" ", "O", "F", " ", "\"">>), Field("Grantee"),
       Text(<<"\"">>) >>

readGrantRawTemplate ==
    << Text(<<"L", "I", "S", "T", " ">>), Field("Privilege"),
       Text(<<" ", "O", "N", " ">>), Field("ResourceType"), Text(<<" ">>),
       If({"Keyspace"}, <<Text(<<"\"">>), Field("Keyspace"), Text(<<"\"">>)>>),
       If({"Keyspace", "Identifier"}, <<Text(<<".">>)>>),
       If({"Identifier"},
          <<Text(<<"\"">>), Field("Identifier"), Text(<<"\"">>)>>),
       Text(<<" ", "O", "F", " ", "\"">>), Field("Grantee"),
       Text(<<"\"">>) >>

\* html/template escapes every value substituted in HTML text context
htmlReplacementTable(c) ==
    CASE c = "\"" -> <<"&", "#", "3", "4", ";">>
      [] c = "&" -> <<"&", "a", "m", "p", ";">>
      [] c = "'" -> <<"&", "#", "3", "9", ";">>
      [] c = "+" -> <<"&", "#", "4", "3", ";">>
      [] c = "<" -> <<"&", "l", "t", ";">>
      [] c = ">" -> <<"&", "g", "t", ";">>
      [] OTHER -> <<c>>

htmlEscaper(s) == Flatten([i \in DOMAIN s |-> htmlReplacementTable(s[i])])

\* a variant of ExecuteNode that renders nothing for .Grantee
ExecuteNode_NoGrantee(node, g) ==
    CASE node.t = "text" -> node.s
      [] node.t = "field" ->
            IF node.f = "Grantee" THEN <<>> ELSE htmlEscaper(g[node.f])

ExecuteNode(node, g) ==
    CASE node.t = "text" -> node.s
      [] node.t = "field" -> htmlEscaper(g[node.f])

RECURSIVE ExecuteNodes(_, _)
ExecuteNodes(nodes, g) ==
    IF nodes = <<>> THEN <<>>
    ELSE LET node == Head(nodes)
             out == IF node.t = "if"
                    THEN IF \A f \in node.fs : g[f] # <<>>
                         THEN Flatten([i \in DOMAIN node.body |->
                                          ExecuteNode(node.body[i], g)])
                         ELSE <<>>
                    ELSE ExecuteNode(node, g)
         IN  out \o ExecuteNodes(Tail(nodes), g)

templateDelete(g) == ExecuteNodes(deleteGrantRawTemplate, g)
templateCreate(g) == ExecuteNodes(createGrantRawTemplate, g)
templateRead(g) == ExecuteNodes(readGrantRawTemplate, g)

\* hash: SHA-256 in hex, modelled as an injective tagging of its input
hash(s) == <<"sha256:">> \o s

\* fmt.Sprintf("%+v", grant) of a *Grant
SprintfGrant(g) ==
    <<"&", "{", "P", "r", "i", "v", "i", "l", "e", "g", "e", ":">>
    \o g.Privilege
    \o <<" ", "R", "e", "s", "o", "u", "r", "c", "e", "T", "y", "p", "e", ":">>
    \o g.ResourceType
    \o <<" ", "G", "r", "a", "n", "t", "e", "e", ":">> \o g.Grantee
    \o <<" ", "K", "e", "y", "s", "p", "a", "c", "e", ":">> \o g.Keyspace
    \o <<" ", "I", "d", "e", "n", "t", "i", "f", "i", "e", "r", ":">>
    \o g.Identifier \o <<"}">>

----------------------------------------------------------------------------
(* The grant schema: validators, ForceNew and ConflictsWith *)

GrantTextAttrs ==
    {identifierPrivilege, identifierGrantee, identifierResourceType,
     identifierKeyspaceName, identifierFunctionName, identifierTableName,
     identifierRoleName, identifierMbeanName, identifierMbeanPattern}

GrantOptionalAttrs ==
    <<identifierKeyspaceName, identifierFunctionName, identifierTableName,
      identifierRoleName, identifierMbeanName, identifierMbeanPattern>>

AllIn(s, chars) == {i \in DOMAIN s : s[i] \notin chars} = {}
NoneIs(s, c) == {i \in DOMAIN s : s[i] = c} = {}

\* ^[^']{1,256}$
validRoleRegex(s) == Len(s) >= 1 /\ Len(s) <= 256 /\ NoneIs(s, "'")
\* ^[^']{40,512}$
validPasswordRegex(s) == Len(s) >= 40 /\ Len(s) <= 512 /\ NoneIs(s, "'")
\* ^[^"]{1,256}$
validIdentifierRegex(s) == Len(s) >= 1 /\ Len(s) <= 256 /\ NoneIs(s, "\"")
\* ^[a-zA-Z0-9][a-zA-Z0-9_]{0,255}$
validTableNameRegex(s) ==
    /\ Len(s) >= 1 /\ Len(s) <= 256
    /\ s[1] \in Letters \cup Digits
    /\ AllIn(s, Letters \cup Digits \cup {"_"})
\* ^[a-zA-Z0-9_]{1,48}$
keyspaceRegex(s) ==
    Len(s) >= 1 /\ Len(s) <= 48 /\ AllIn(s, Letters \cup Digits \cup {"_"})

\* regexp.Compile succeeds on a pattern made of literal characters; patterns
\* with metacharacters are outside the values this model draws
RegexpCompiles(s) ==
    AllIn(s, Letters \cup Digits \cup {"_", "&", " ", "'", "\"", "<", ">"})

\* the ValidateFunc of each attribute of the grant schema: TRUE when it
\* reports no error
GrantValidateFunc(attr, v) ==
    CASE attr = identifierPrivilege ->
            ~(Len(MapGet(privilegeToResourceTypesMap, v, <<>>)) <= 0)
      [] attr = identifierGrantee -> validRoleRegex(v)
      [] attr = identifierResourceType -> MapGet(validResources, v, FALSE)
      [] attr = identifierKeyspaceName -> keyspaceRegex(v)
      [] attr = identifierFunctionName -> validIdentifierRegex(v)
      [] attr = identifierTableName -> validTableNameRegex(v)
      [] attr = identifierRoleName -> validRoleRegex(v)
      [] attr = identifierMbeanName -> validIdentifierRegex(v)
      [] attr = identifierMbeanPattern -> RegexpCompiles(v)

GrantForceNew ==
    [attr \in GrantTextAttrs |->
        CASE attr = identifierFunctionName -> FALSE
          [] OTHER -> TRUE]

\* a variant of GrantConflictsWith in which keyspace_name and function_name
\* conflict as well
GrantConflictsWith_KeyspaceFunction ==
    [attr \in GrantTextAttrs |->
        CASE attr = identifierKeyspaceName ->
                {identifierRoleName, identifierMbeanName,
                 identifierMbeanPattern, identifierFunctionName}
          [] attr = identifierFunctionName ->
                {identifierTableName, identifierRoleName, identifierMbeanName,
                 identifierMbeanPattern, identifierKeyspaceName}
          [] attr = identifierTableName ->
                {identifierFunctionName, identifierRoleName,
                 identifierMbeanName, identifierMbeanPattern}
          [] attr = identifierRoleName ->
                {identifierFunctionName, identifierTableName,
                 identifierMbeanName, identifierMbeanPattern,
                 identifierKeyspaceName}
          [] attr = identifierMbeanName ->
                {identifierFunctionName, identifierTableName,
                 identifierRoleName, identifierMbeanPattern,
                 identifierKeyspaceName}
          [] attr = identifierMbeanPattern ->
                {identifierFunctionName, identifierTableName,
                 identifierRoleName, identifierMbeanName,
                 identifierKeyspaceName}
          [] OTHER -> {}]

GrantConflictsWith ==
    [attr \in GrantTextAttrs |->
        CASE attr = identifierKeyspaceName ->
                {identifierRoleName, identifierMbeanName,
                 identifierMbeanPattern}
          [] attr = identifierFunctionName ->
                {identifierTableName, identifierRoleName, identifierMbeanName,
                 identifierMbeanPattern}
          [] attr = identifierTableName ->
                {identifierFunctionName, identifierRoleName,
                 identifierMbeanName, identifierMbeanPattern}
          [] attr = identifierRoleName ->
                {identifierFunctionName, identifierTableName,
                 identifierMbeanName, identifierMbeanPattern,
                 identifierKeyspaceName}
          [] attr = identifierMbeanName ->
                {identifierFunctionName, identifierTableName,
                 identifierRoleName, identifierMbeanPattern,
                 identifierKeyspaceName}
          [] attr = identifierMbeanPattern ->
                {identifierFunctionName, identifierTableName,
                 identifierRoleName, identifierMbeanName,
                 identifierKeyspaceName}
          [] OTHER -> {}]

\* the SDK's validation of a grant configuration: every attribute that is
\* set passes its ValidateFunc, the required ones are set, and no two
\* attributes that are set conflict
GrantSchemaValid(data) ==
    /\ \A attr \in {identifierPrivilege, identifierGrantee,
                    identifierResourceType} :
            GrantValidateFunc(attr, data[attr])
    /\ \A i \in DOMAIN GrantOptionalAttrs :
            LET attr == GrantOptionalAttrs[i]
            IN  data[attr] # <<>> =>
                    /\ GrantValidateFunc(attr, data[attr])
                    /\ \A other \in GrantConflictsWith[attr] :
                            data[other] = <<>>

----------------------------------------------------------------------------
(* The cluster and the driver *)

\* the literal text of the keyspace and role statements and of the cluster's
\* grammar
actionCreate ==
    <<"C", "R", "E", "A", "T", "E">>
actionUpdate ==
    <<"U", "P", "D", "A", "T", "E">>
fmtKeyspace ==
    <<" ", "K", "E", "Y", "S", "P", "A", "C", "E", " ">>
fmtWithReplication ==
    <<" ", "W", "I", "T", "H", " ", "R", "E", "P", "L", "I", "C", "A", "T",
      "I", "O", "N", " ", "=", " ", "{", " ", "'", "c", "l", "a", "s", "s",
      "'", " ", ":", " ", "'">>
fmtQuote ==
    <<"'">>
fmtOptionOpen ==
    <<",", " ", "'">>
fmtOptionMid ==
    <<"'", " ", ":", " ", "'">>
fmtDurableWrites ==
    <<" ", "}", " ", "A", "N", "D", " ", "D", "U", "R", "A", "B", "L", "E",
      "_", "W", "R", "I", "T", "E", "S", " ", "=", " ">>
fmtDropKeyspace ==
    <<"D", "R", "O", "P", " ", "K", "E", "Y", "S", "P", "A", "C", "E", " ">>
SimpleStrategy ==
    <<"S", "i", "m", "p", "l", "e", "S", "t", "r", "a", "t", "e", "g", "y">>
NetworkTopologyStrategy ==
    <<"N", "e", "t", "w", "o", "r", "k", "T", "o", "p", "o", "l", "o", "g",
      "y", "S", "t", "r", "a", "t", "e", "g", "y">>
locatorPrefix ==
    <<"o", "r", "g", ".", "a", "p", "a", "c", "h", "e", ".", "c", "a", "s",
      "s", "a", "n", "d", "r", "a", ".", "l", "o", "c", "a", "t", "o", "r",
      ".">>
fmtRole ==
    <<" ", "R", "O", "L", "E", " ", "'">>
fmtWithPassword ==
    <<"'", " ", "W", "I", "T", "H", " ", "P", "A", "S", "S", "W", "O", "R",
      "D", " ", "=", " ", "'">>
fmtAndLogin ==
    <<"'", " ", "A", "N", "D", " ", "L", "O", "G", "I", "N", " ", "=", " ">>
fmtAndSuperuser ==
    <<" ", "A", "N", "D", " ", "S", "U", "P", "E", "R", "U", "S", "E", "R",
      " ", "=", " ">>
fmtDropRole ==
    <<"D", "R", "O", "P", " ", "R", "O", "L", "E", " ", "'">>
readRoleQuery ==
    <<"s", "e", "l", "e", "c", "t", " ", "r", "o", "l", "e", ",", " ", "c",
      "a", "n", "_", "l", "o", "g", "i", "n", ",", " ", "i", "s", "_", "s",
      "u", "p", "e", "r", "u", "s", "e", "r", ",", " ", "s", "a", "l", "t",
      "e", "d", "_", "h", "a", "s", "h", " ", "f", "r", "o", "m", " ", "s",
      "y", "s", "t", "e", "m", "_", "a", "u", "t", "h", ".", "r", "o", "l",
      "e", "s", " ", "w", "h", "e", "r", "e", " ", "r", "o", "l", "e", " ",
      "=", " ", "?">>
\* the words of the cluster's CQL grammar that the statements sent here use
CQL ==
    [grant |->
        <<"G", "R", "A", "N", "T", " ">>,
     revoke |->
        <<"R", "E", "V", "O", "K", "E", " ">>,
     list |->
        <<"L", "I", "S", "T", " ">>,
     to |->
        <<" ", "T", "O", " ", "\"">>,
     from |->
        <<" ", "F", "R", "O", "M", " ", "\"">>,
     of |->
        <<" ", "O", "F", " ", "\"">>,
     createKeyspace |->
        <<"C", "R", "E", "A", "T", "E", " ", "K", "E", "Y", "S", "P", "A", "C",
          "E", " ">>,
     alterKeyspace |->
        <<"A", "L", "T", "E", "R", " ", "K", "E", "Y", "S", "P", "A", "C", "E",
          " ">>,
     createRole |->
        <<"C", "R", "E", "A", "T", "E", " ", "R", "O", "L", "E", " ", "'">>,
     alterRole |->
        <<"A", "L", "T", "E", "R", " ", "R", "O", "L", "E", " ", "'">>,
     loginTrue |->
        <<"L", "O", "G", "I", "N", " ", "=", " ", "t", "r", "u", "e">>,
     superuserTrue |->
        <<"S", "U", "P", "E", "R", "U", "S", "E", "R", " ", "=", " ", "t", "r",
          "u", "e">>]

\* the configurations of the provider: the ports at the edges of the
\* validator, and lists of one or two hosts (the schema requires one)
ProviderData ==
    {[resource |-> "provider", id |-> <<>>, port |-> port, hosts |-> hosts] :
        port \in {-1, 0, 1, 9042, 65534, 65535, 65536},
        hosts \in {<<<<"h">>>>, <<<<"h">>, <<"i">>>>, <<<<"i">>, <<"h">>>>}}

\* configureProvider returns the *gocql.ClusterConfig as the provider's
\* meta: hosts is made with the length of the configured list and every
\* configured host is appended to it; HostFilter holds the arguments of
\* gocql.WhiteListHostFilter
configureProvider(data) ==
    LET rawHosts == data.hosts
        \* make([]string, n): a slice of n zero values
        make(n) == [i \in 1..n |-> <<>>]
        hosts == make(Len(rawHosts)) \o rawHosts
    IN  [type |-> "*gocql.ClusterConfig", Hosts |-> hosts,
         Port |-> data.port, HostFilter |-> hosts]

ErrSession == "gocql: unable to create session"
ErrQuery == "gocql: query failed"
ErrSyntax == "cluster: syntax error"
ErrPanic == "panic: interface conversion"

\* what a handler did to the driver: the sessions it asked for, opened and
\* closed, the statements it sent, the Grant it validated, the rows of its
\* query, and the error the driver reported, if any, with the position in
\* sent of the statement that failed
IoNone ==
    [attempts |-> 0, opened |-> 0, closed |-> 0, sent |-> <<>>,
     grant |-> <<>>, rows |-> 0, metaSession |-> FALSE,
     driverErr |-> "nil", failedAt |-> 0]

\* the position in sent of the statement the driver failed on, 0 if none
FailedAt(err, n) == IF err = "nil" THEN 0 ELSE n

\* the part of a statement after its verb, split at the first occurrence
\* of its preposition
StatementIdentity(stmt, verb, prep) ==
    LET at == Occurrences(stmt, prep)
    IN  IF ~StartsWith(stmt, verb) \/ at = {} THEN <<stmt, <<>>>>
        ELSE <<SubSeq(stmt, Len(verb) + 1, Min(at) - 1),
               SubSeq(stmt, Min(at) + Len(prep), Len(stmt))>>

\* the text of s up to its first space
TakeWord(s) ==
    LET at == Occurrences(s, <<" ">>)
    IN  IF at = {} THEN s ELSE SubSeq(s, 1, Min(at) - 1)

Drop(s, n) == SubSeq(s, n + 1, Len(s))

\* the text between the n-th and the (n+1)-th single quote of s, n = 1 or 3
RECURSIVE NthMin(_, _)
NthMin(S, n) == IF n = 1 THEN Min(S) ELSE NthMin(S \ {Min(S)}, n - 1)
Quoted(s, n) ==
    LET Q == Occurrences(s, <<"'">>)
    IN  IF Cardinality(Q) < n + 1 THEN <<>>
        ELSE SubSeq(s, NthMin(Q, n) + 1, NthMin(Q, n + 1) - 1)

\* the salted hash the cluster keeps of a password: an injective tagging
SaltedHash(password) == <<"bcrypt:">> \o password

RoleOfStatement(stmt) ==
    [can_login |-> Contains(stmt, CQL.loginTrue),
     is_superuser |-> Contains(stmt, CQL.superuserTrue),
     salted_hash |-> SaltedHash(Quoted(stmt, 3))]

\* the statements the cluster's CQL grammar knows, among those sent here
Recognised(stmt) ==
    \E verb \in {CQL.grant, CQL.revoke, CQL.list, CQL.createKeyspace,
                 CQL.alterKeyspace, fmtDropKeyspace, CQL.createRole,
                 CQL.alterRole, fmtDropRole} : StartsWith(stmt, verb)

\* what the cluster holds after it has applied a statement
ClusterApply(c, stmt) ==
    IF StartsWith(stmt, CQL.grant)
    THEN [c EXCEPT !.perms = @ \cup {StatementIdentity(stmt, CQL.grant, CQL.to)}]
    ELSE IF StartsWith(stmt, CQL.revoke)
    THEN [c EXCEPT !.perms = @ \ {StatementIdentity(stmt, CQL.revoke, CQL.from)}]
    ELSE IF StartsWith(stmt, CQL.createKeyspace)
    THEN [c EXCEPT !.keyspaces =
                @ \cup {TakeWord(Drop(stmt, Len(CQL.createKeyspace)))}]
    ELSE IF StartsWith(stmt, fmtDropKeyspace)
    THEN [c EXCEPT !.keyspaces =
                @ \ {TakeWord(Drop(stmt, Len(fmtDropKeyspace)))}]
    ELSE IF StartsWith(stmt, CQL.createRole) \/ StartsWith(stmt, CQL.alterRole)
    THEN [c EXCEPT !.roles =
                [n \in DOMAIN @ \cup {Quoted(stmt, 1)} |->
                    IF n = Quoted(stmt, 1) THEN RoleOfStatement(stmt)
                    ELSE @[n]]]
    ELSE IF StartsWith(stmt, fmtDropRole)
    THEN [c EXCEPT !.roles =
                [n \in DOMAIN @ \ {Quoted(stmt, 1)} |-> @[n]]]
    ELSE c

\* session.Query(stmt).Exec(): the driver may fail; otherwise the cluster
\* applies the statement, or rejects one its grammar does not know
Exec(c, stmt) ==
    {[cluster |-> c, err |-> ErrQuery]}
    \cup
    (IF Recognised(stmt)
     THEN {[cluster |-> ClusterApply(c, stmt), err |-> "nil"]}
     ELSE {[cluster |-> c, err |-> ErrSyntax]})

\* session.Query(stmt).Iter(), NumRows() and Close(): a failed query has no
\* rows and reports its error at Close; LIST has a row for a permission
\* that is granted
Iter(c, stmt) ==
    {[rows |-> 0, err |-> ErrQuery],
     [rows |-> IF StatementIdentity(stmt, CQL.list, CQL.of) \in c.perms
               THEN 1 ELSE 0,
      err |-> "nil"]}

----------------------------------------------------------------------------
(* The grant handlers.  Each gives the set of outcomes the handler can     *)
(* have on resource data `data` against cluster `c`: the data and cluster  *)
(* it leaves, what it returns, and what it did to the driver.              *)

ErrGrantDoesNotExist == "Grant does not exist"
ErrUpdateNotSupported == "Updating of grants is not supported"

SetId(data, id) == [data EXCEPT !.id = id]

\* a variant of resourceGrantExists that compares the row count with >=
resourceGrantExists_RowsGeq(data, c) ==
    LET parsed == parseData(data)
        grant == parsed.grant[1]
        query == templateRead(grant)
    IN  IF parsed.err # "nil"
        THEN {[d |-> data, cluster |-> c, b |-> FALSE, err |-> parsed.err,
               io |-> IoNone]}
        ELSE {[d |-> data, cluster |-> c, b |-> FALSE, err |-> ErrSession,
               io |-> [IoNone EXCEPT !.grant = parsed.grant, !.attempts = 1,
                                     !.driverErr = ErrSession]]}
             \cup
             {[d |-> data, cluster |-> c, b |-> it.rows >= 0, err |-> it.err,
               io |-> [IoNone EXCEPT !.grant = parsed.grant, !.attempts = 1,
                                     !.opened = 1, !.closed = 1,
                                     !.sent = <<query>>, !.rows = it.rows,
                                     !.driverErr = it.err,
                                     !.failedAt = FailedAt(it.err, 1)]] :
              it \in Iter(c, query)}

resourceGrantExists(data, c) ==
    LET parsed == parseData(data)
        grant == parsed.grant[1]
        query == templateRead(grant)
    IN  IF parsed.err # "nil"
        THEN {[d |-> data, cluster |-> c, b |-> FALSE, err |-> parsed.err,
               io |-> IoNone]}
        ELSE {[d |-> data, cluster |-> c, b |-> FALSE, err |-> ErrSession,
               io |-> [IoNone EXCEPT !.grant = parsed.grant, !.attempts = 1,
                                     !.driverErr = ErrSession]]}
             \cup
             {[d |-> data, cluster |-> c, b |-> it.rows > 0, err |-> it.err,
               io |-> [IoNone EXCEPT !.grant = parsed.grant, !.attempts = 1,
                                     !.opened = 1, !.closed = 1,
                                     !.sent = <<query>>, !.rows = it.rows,
                                     !.driverErr = it.err,
                                     !.failedAt = FailedAt(it.err, 1)]] :
              it \in Iter(c, query)}

resourceGrantCreate(data, c) ==
    LET parsed == parseData(data)
        grant == parsed.grant[1]
        query == templateCreate(grant)
    IN  IF parsed.err # "nil"
        THEN {[d |-> data, cluster |-> c, err |-> parsed.err, io |-> IoNone]}
        ELSE {[d |-> data, cluster |-> c, err |-> ErrSession,
               io |-> [IoNone EXCEPT !.grant = parsed.grant, !.attempts = 1,
                                     !.driverErr = ErrSession]]}
             \cup
             {[d |-> SetId(data, hash(SprintfGrant(grant))),
               cluster |-> ex.cluster, err |-> ex.err,
               io |-> [IoNone EXCEPT !.grant = parsed.grant, !.attempts = 1,
                                     !.opened = 1, !.closed = 1,
                                     !.sent = <<query>>,
                                     !.driverErr = ex.err,
                                     !.failedAt = FailedAt(ex.err, 1)]] :
              ex \in Exec(c, query)}

\* a variant of resourceGrantRead that removes the id of a grant the
\* cluster does not hold
resourceGrantRead_ClearsId(data, c) ==
    {[d |-> IF ex.err = "nil" /\ ~ex.b THEN SetId(ex.d, <<>>) ELSE ex.d,
      cluster |-> ex.cluster,
      err |-> IF ex.err # "nil" THEN ex.err
              ELSE IF ~ex.b THEN ErrGrantDoesNotExist ELSE "nil",
      io |-> ex.io] : ex \in resourceGrantExists(data, c)}

resourceGrantRead(data, c) ==
    UNION {
        IF ex.err # "nil"
        THEN {[d |-> ex.d, cluster |-> ex.cluster, err |-> ex.err,
               io |-> ex.io]}
        ELSE IF ~ex.b
        THEN {[d |-> ex.d, cluster |-> ex.cluster,
               err |-> ErrGrantDoesNotExist, io |-> ex.io]}
        ELSE LET parsed == parseData(ex.d)
                 grant == parsed.grant[1]
                 d1 == [ex.d EXCEPT ![identifierResourceType] = grant.ResourceType,
                                    ![identifierGrantee] = grant.Grantee,
                                    ![identifierPrivilege] = grant.Privilege]
                 d2 == IF grant.Keyspace # <<>>
                       THEN [d1 EXCEPT ![identifierKeyspaceName] = grant.Keyspace]
                       ELSE d1
                 d3 == IF grant.Identifier # <<>>
                       THEN [d2 EXCEPT ![resourceTypeToIdentifier[grant.ResourceType]] =
                                            grant.Identifier]
                       ELSE d2
             IN  IF parsed.err # "nil"
                 THEN {[d |-> ex.d, cluster |-> ex.cluster, err |-> parsed.err,
                        io |-> ex.io]}
                 ELSE {[d |-> d3, cluster |-> ex.cluster, err |-> "nil",
                        io |-> ex.io]}
        : ex \in resourceGrantExists(data, c)}

\* a variant of resourceGrantDelete that asks for its session before it
\* parses the resource data
resourceGrantDelete_SessionFirst(data, c) ==
    LET parsed == parseData(data)
        grant == parsed.grant[1]
        query == templateDelete(grant)
    IN  {[d |-> data, cluster |-> c, err |-> ErrSession,
          io |-> [IoNone EXCEPT !.grant = parsed.grant, !.attempts = 1,
                                !.driverErr = ErrSession]]}
        \cup
        (IF parsed.err # "nil"
         THEN {[d |-> data, cluster |-> c, err |-> parsed.err,
                io |-> [IoNone EXCEPT !.attempts = 1, !.opened = 1,
                                      !.closed = 1]]}
         ELSE {[d |-> data, cluster |-> ex.cluster, err |-> ex.err,
                io |-> [IoNone EXCEPT !.grant = parsed.grant, !.attempts = 1,
                                      !.opened = 1, !.closed = 1,
                                      !.sent = <<query>>,
                                      !.driverErr = ex.err,
                                      !.failedAt = FailedAt(ex.err, 1)]] :
               ex \in Exec(c, query)})

resourceGrantDelete(data, c) ==
    LET parsed == parseData(data)
        grant == parsed.grant[1]
        query == templateDelete(grant)
    IN  IF parsed.err # "nil"
        THEN {[d |-> data, cluster |-> c, err |-> parsed.err, io |-> IoNone]}
        ELSE {[d |-> data, cluster |-> c, err |-> ErrSession,
               io |-> [IoNone EXCEPT !.grant = parsed.grant, !.attempts = 1,
                                     !.driverErr = ErrSession]]}
             \cup
             {[d |-> data, cluster |-> ex.cluster, err |-> ex.err,
               io |-> [IoNone EXCEPT !.grant = parsed.grant, !.attempts = 1,
                                     !.opened = 1, !.closed = 1,
                                     !.sent = <<query>>,
                                     !.driverErr = ex.err,
                                     !.failedAt = FailedAt(ex.err, 1)]] :
              ex \in Exec(c, query)}

\* a variant of resourceGrantUpdate that applies the change as a Create
resourceGrantUpdate_AsCreate(data, c) == resourceGrantCreate(data, c)

resourceGrantUpdate(data, c) ==
    {[d |-> data, cluster |-> c, err |-> ErrUpdateNotSupported, io |-> IoNone]}

----------------------------------------------------------------------------
(* The keyspace handlers *)

ErrStrategyOptions == "Must specify stratgey options"
ErrKeyspaceDoesNotExist == "gocql: keyspace does not exist"

boolToAction == [create \in BOOLEAN |-> IF create THEN actionCreate ELSE actionUpdate]

SprintfBool(b) ==
    IF b THEN <<"t", "r", "u", "e">> ELSE <<"f", "a", "l", "s", "e">>

\* the orders in which a range over a Go map can visit its keys
RangeOrders(S) ==
    {p \in [1..Cardinality(S) -> S] :
        \A i, j \in 1..Cardinality(S) : i # j => p[i] # p[j]}

\* a variant of generateCreateOrUpdateKeyspaceQueryString that builds the
\* statement of an empty strategy_options map as well
generateCreateOrUpdateKeyspaceQueryString_NoCheck(name, create, replicationStrategy, strategyOptions, durableWrites) ==
    LET head == boolToAction[create] \o fmtKeyspace \o name
                \o fmtWithReplication \o replicationStrategy \o fmtQuote
        options(order) ==
            Flatten([i \in DOMAIN order |->
                        fmtOptionOpen \o order[i] \o fmtOptionMid
                        \o strategyOptions[order[i]] \o fmtQuote])
        tail == fmtDurableWrites \o SprintfBool(durableWrites)
    IN  {[query |-> head \o options(order) \o tail, err |-> "nil"] :
            order \in RangeOrders(DOMAIN strategyOptions)}

\* the (query, error) pairs the function can return: the options are
\* appended in the order the range over the map visits them
generateCreateOrUpdateKeyspaceQueryString(name, create, replicationStrategy, strategyOptions, durableWrites) ==
    LET numberOfStrategyOptions == Cardinality(DOMAIN strategyOptions)
        head == boolToAction[create] \o fmtKeyspace \o name
                \o fmtWithReplication \o replicationStrategy \o fmtQuote
        options(order) ==
            Flatten([i \in DOMAIN order |->
                        fmtOptionOpen \o order[i] \o fmtOptionMid
                        \o strategyOptions[order[i]] \o fmtQuote])
        tail == fmtDurableWrites \o SprintfBool(durableWrites)
    IN  IF numberOfStrategyOptions = 0
        THEN {[query |-> <<>>, err |-> ErrStrategyOptions]}
        ELSE {[query |-> head \o options(order) \o tail, err |-> "nil"] :
                order \in RangeOrders(DOMAIN strategyOptions)}

\* the strategy options and the metadata the model draws
StrategyOptionsValues ==
    LET optReplicationFactor ==
            <<"r", "e", "p", "l", "i", "c", "a", "t", "i", "o", "n", "_", "f", "a",
            "c", "t", "o", "r">>
        optDc1 == <<"d", "c", "1">>
        optDc2 == <<"d", "c", "2">>
    IN  {<<>>,
         [k \in {optReplicationFactor} |-> <<"1">>],
         [k \in {optDc1, optDc2} |-> IF k = optDc1 THEN <<"1">> ELSE <<"2">>]}

\* session.KeyspaceMetadata(name): the metadata of a keyspace the cluster
\* holds, ErrKeyspaceDoesNotExist for one it does not, or a driver failure
KeyspaceMetadata(c, name) ==
    {[err |-> ErrQuery, StrategyClass |-> <<>>, StrategyOptions |-> <<>>,
      DurableWrites |-> FALSE]}
    \cup
    (IF name \in c.keyspaces
     THEN {[err |-> "nil", StrategyClass |-> locatorPrefix \o class,
            StrategyOptions |-> opts, DurableWrites |-> dw] :
                class \in {SimpleStrategy, NetworkTopologyStrategy},
                opts \in StrategyOptionsValues \ {<<>>},
                dw \in BOOLEAN}
     ELSE {[err |-> ErrKeyspaceDoesNotExist, StrategyClass |-> <<>>,
            StrategyOptions |-> <<>>, DurableWrites |-> FALSE]})

TrimPrefix(s, prefix) ==
    IF StartsWith(s, prefix) THEN Drop(s, Len(prefix)) ELSE s

Session == [IoNone EXCEPT !.attempts = 1, !.opened = 1, !.closed = 1]
NoSession == [IoNone EXCEPT !.attempts = 1, !.driverErr = ErrSession]

resourceKeyspaceExists(data, c) ==
    {[d |-> data, cluster |-> c, b |-> FALSE, err |-> ErrSession,
      io |-> NoSession]}
    \cup
    {IF md.err = "nil"
     THEN [d |-> data, cluster |-> c, b |-> FALSE, err |-> md.err,
           io |-> Session]
     ELSE [d |-> data, cluster |-> c, b |-> TRUE, err |-> "nil",
           io |-> [Session EXCEPT !.driverErr = md.err]] :
        md \in KeyspaceMetadata(c, data.name)}

resourceKeyspaceCreate(data, c) ==
    UNION {
        IF g.err # "nil"
        THEN {[d |-> data, cluster |-> c, err |-> g.err, io |-> IoNone]}
        ELSE {[d |-> data, cluster |-> c, err |-> ErrSession,
               io |-> NoSession]}
             \cup
             {[d |-> SetId(data, data.name), cluster |-> ex.cluster,
               err |-> ex.err, io |-> [Session EXCEPT !.sent = <<g.query>>,
                                      !.driverErr = ex.err,
                                      !.failedAt = FailedAt(ex.err, 1)]] :
                ex \in Exec(c, g.query)}
        : g \in generateCreateOrUpdateKeyspaceQueryString(
                    data.name, TRUE, data.replication_strategy,
                    data.strategy_options, data.durable_writes)}

resourceKeyspaceRead(data, c) ==
    {[d |-> data, cluster |-> c, err |-> ErrSession, io |-> NoSession]}
    \cup
    {IF md.err # "nil"
     THEN [d |-> data, cluster |-> c, err |-> md.err,
           io |-> [Session EXCEPT !.driverErr = md.err]]
     ELSE [d |-> [data EXCEPT
                    !.replication_strategy =
                        TrimPrefix(md.StrategyClass, locatorPrefix),
                    !.durable_writes = md.DurableWrites,
                    !.strategy_options = md.StrategyOptions,
                    !.id = data.name],
           cluster |-> c, err |-> "nil", io |-> Session] :
        md \in KeyspaceMetadata(c, data.name)}

\* the handler asserts that the provider's meta is a *gocql.Session and
\* sends DROP KEYSPACE on it; the assertion panics on any other meta
resourceKeyspaceDelete(data, c) ==
    IF \A p \in ProviderData : configureProvider(p).type # "*gocql.Session"
    THEN {[d |-> data, cluster |-> c, err |-> ErrPanic,
           io |-> [IoNone EXCEPT !.metaSession = TRUE]]}
    ELSE {[d |-> data, cluster |-> ex.cluster, err |-> ex.err,
           io |-> [IoNone EXCEPT !.metaSession = TRUE,
                                 !.sent = <<fmtDropKeyspace \o data.name>>,
                                 !.driverErr = ex.err,
                                 !.failedAt = FailedAt(ex.err, 1)]] :
            ex \in Exec(c, fmtDropKeyspace \o data.name)}

\* a variant of resourceKeyspaceUpdate that sends the statement again when
\* it has failed
resourceKeyspaceUpdate_Retry(data, c) ==
    UNION {
        IF g.err # "nil"
        THEN {[d |-> data, cluster |-> c, err |-> g.err, io |-> IoNone]}
        ELSE {[d |-> data, cluster |-> c, err |-> ErrSession,
               io |-> NoSession]}
             \cup
             UNION {
                IF ex.err = "nil"
                THEN {[d |-> data, cluster |-> ex.cluster, err |-> ex.err,
                       io |-> [Session EXCEPT !.sent = <<g.query>>]]}
                ELSE {[d |-> data, cluster |-> again.cluster,
                       err |-> again.err,
                       io |-> [Session EXCEPT
                                    !.sent = <<g.query, g.query>>,
                                    !.driverErr = again.err,
                                    !.failedAt = FailedAt(again.err, 2)]] :
                        again \in Exec(ex.cluster, g.query)}
                : ex \in Exec(c, g.query)}
        : g \in generateCreateOrUpdateKeyspaceQueryString(
                    data.name, FALSE, data.replication_strategy,
                    data.strategy_options, data.durable_writes)}

resourceKeyspaceUpdate(data, c) ==
    UNION {
        IF g.err # "nil"
        THEN {[d |-> data, cluster |-> c, err |-> g.err, io |-> IoNone]}
        ELSE {[d |-> data, cluster |-> c, err |-> ErrSession,
               io |-> NoSession]}
             \cup
             {[d |-> data, cluster |-> ex.cluster, err |-> ex.err,
               io |-> [Session EXCEPT !.sent = <<g.query>>,
                                      !.driverErr = ex.err,
                                      !.failedAt = FailedAt(ex.err, 1)]] :
                ex \in Exec(c, g.query)}
        : g \in generateCreateOrUpdateKeyspaceQueryString(
                    data.name, FALSE, data.replication_strategy,
                    data.strategy_options, data.durable_writes)}

----------------------------------------------------------------------------
(* The role handlers *)

\* the row of system_auth.roles for name, if the query succeeds and finds
\* one; the zero values otherwise.  The error returned is always nil:
\* iterErr is the error the iterator holds, which readRole never reads.
readRole(c, name) ==
    LET zero == [role |-> <<>>, canLogin |-> FALSE, isSuperUser |-> FALSE,
                 saltedHash |-> <<>>, err |-> "nil", iterErr |-> "nil"]
    IN  {[zero EXCEPT !.iterErr = ErrQuery]}
        \cup
        (IF name \in DOMAIN c.roles
         THEN {[role |-> name, canLogin |-> c.roles[name].can_login,
                isSuperUser |-> c.roles[name].is_superuser,
                saltedHash |-> c.roles[name].salted_hash, err |-> "nil",
                iterErr |-> "nil"]}
         ELSE {zero})

resourceRoleExists(data, c) ==
    {[d |-> data, cluster |-> c, b |-> FALSE, err |-> ErrSession,
      io |-> NoSession]}
    \cup
    {[d |-> data, cluster |-> c,
      b |-> (rr.role = data.name /\ rr.err = "nil"), err |-> rr.err,
      io |-> [Session EXCEPT !.sent = <<readRoleQuery>>,
                             !.driverErr = rr.iterErr,
                             !.failedAt = FailedAt(rr.iterErr, 1)]] :
        rr \in readRole(c, data.name)}

resourceRoleCreateOrUpdate(data, c, createRole) ==
    LET query == boolToAction[createRole] \o fmtRole \o data.name
                 \o fmtWithPassword \o data.password \o fmtAndLogin
                 \o SprintfBool(data.login) \o fmtAndSuperuser
                 \o SprintfBool(data.super_user)
    IN  {[d |-> data, cluster |-> c, err |-> ErrSession, io |-> NoSession]}
        \cup
        UNION {
            IF ex.err # "nil"
            THEN {[d |-> data, cluster |-> ex.cluster, err |-> ex.err,
                   io |-> [Session EXCEPT !.sent = <<query>>,
                                          !.driverErr = ex.err,
                                          !.failedAt = 1]]}
            ELSE {LET d1 == [data EXCEPT !.id = data.name,
                                         !.name = data.name,
                                         !.super_user = data.super_user,
                                         !.login = data.login]
                  IN  IF rr.err # "nil"
                      THEN [d |-> d1, cluster |-> ex.cluster, err |-> rr.err,
                            io |-> [Session EXCEPT
                                        !.sent = <<query, readRoleQuery>>,
                                        !.driverErr = rr.iterErr,
                                        !.failedAt = FailedAt(rr.iterErr, 2)]]
                      ELSE [d |-> [d1 EXCEPT !.password = rr.saltedHash],
                            cluster |-> ex.cluster, err |-> "nil",
                            io |-> [Session EXCEPT
                                        !.sent = <<query, readRoleQuery>>,
                                        !.driverErr = rr.iterErr,
                                        !.failedAt = FailedAt(rr.iterErr, 2)]] :
                    rr \in readRole(ex.cluster, data.name)}
            : ex \in Exec(c, query)}

resourceRoleCreate(data, c) == resourceRoleCreateOrUpdate(data, c, TRUE)

resourceRoleUpdate(data, c) == resourceRoleCreateOrUpdate(data, c, FALSE)

resourceRoleRead(data, c) ==
    {[d |-> data, cluster |-> c, err |-> ErrSession, io |-> NoSession]}
    \cup
    {IF rr.err # "nil"
     THEN [d |-> data, cluster |-> c, err |-> rr.err,
           io |-> [Session EXCEPT !.sent = <<readRoleQuery>>,
                                  !.driverErr = rr.iterErr,
                                  !.failedAt = FailedAt(rr.iterErr, 1)]]
     ELSE [d |-> [data EXCEPT !.id = rr.role, !.name = rr.role,
                              !.super_user = rr.isSuperUser,
                              !.login = rr.canLogin,
                              !.password = rr.saltedHash],
           cluster |-> c, err |-> "nil",
           io |-> [Session EXCEPT !.sent = <<readRoleQuery>>,
                                  !.driverErr = rr.iterErr,
                                  !.failedAt = FailedAt(rr.iterErr, 1)]] :
        rr \in readRole(c, data.name)}

resourceRoleDelete(data, c) ==
    LET query == fmtDropRole \o data.name \o fmtQuote
    IN  {[d |-> data, cluster |-> c, err |-> ErrSession, io |-> NoSession]}
        \cup
        {[d |-> data, cluster |-> ex.cluster, err |-> ex.err,
          io |-> [Session EXCEPT !.sent = <<query>>,
                                 !.driverErr = ex.err,
                                 !.failedAt = FailedAt(ex.err, 1)]] :
            ex \in Exec(c, query)}

----------------------------------------------------------------------------
(* The keyspace, role and provider schemas *)

systemKeyspace == <<"s", "y", "s", "t", "e", "m">>

\* ^SimpleStrategy|NetworkTopologyStrategy$ : the alternation binds weaker
\* than the anchors, and MatchString looks for a match anywhere in the text
strategyRegex(s) ==
    LET EndsWith(t, p) ==
            Len(t) >= Len(p) /\ SubSeq(t, Len(t) - Len(p) + 1, Len(t)) = p
    IN  StartsWith(s, SimpleStrategy) \/ EndsWith(s, NetworkTopologyStrategy)

\* a variant of KeyspaceValidateFunc without the test for the name system
KeyspaceValidateFunc_AllowsSystem(attr, v) ==
    CASE attr = "name" -> keyspaceRegex(v)
      [] attr = "replication_strategy" -> strategyRegex(v)

\* the ValidateFunc of each attribute of the keyspace schema that has one:
\* TRUE when it reports no error
KeyspaceValidateFunc(attr, v) ==
    CASE attr = "name" -> keyspaceRegex(v) /\ ~(v = systemKeyspace)
      [] attr = "replication_strategy" -> strategyRegex(v)

KeyspaceSchemaValid(data) ==
    \A attr \in {"name", "replication_strategy"} :
        KeyspaceValidateFunc(attr, data[attr])

\* a variant of RoleValidateFunc whose patterns admit the single quote
RoleValidateFunc_AllowsQuote(attr, v) ==
    CASE attr = "name" -> Len(v) >= 1 /\ Len(v) <= 256
      [] attr = "password" -> Len(v) >= 40 /\ Len(v) <= 512

\* the ValidateFunc of each attribute of the role schema that has one
RoleValidateFunc(attr, v) ==
    CASE attr = "name" -> validRoleRegex(v)
      [] attr = "password" -> validPasswordRegex(v)

RoleSchemaValid(data) ==
    \A attr \in {"name", "password"} : RoleValidateFunc(attr, data[attr])

\* the ValidateFunc of the provider's port
ProviderValidateFunc(attr, port) ==
    CASE attr = "port" -> ~(port <= 0 \/ port >= 65535)

----------------------------------------------------------------------------
(* The resource data the handlers are called with *)

\* a privilege that is no key of the table, and a resource type that is
\* not valid
privilegeTruncate == <<"t", "r", "u", "n", "c", "a", "t", "e">>
resourceIndex == <<"i", "n", "d", "e", "x">>

ValueAlphabet(attr) ==
    CASE attr = identifierGrantee -> {"g", "&"}
      [] attr = identifierKeyspaceName -> {"k"}
      [] attr = identifierFunctionName -> {"f"}
      [] attr = identifierTableName -> {"t"}
      [] attr = identifierRoleName -> {"r"}
      [] attr = identifierMbeanName -> {"m"}
      [] attr = identifierMbeanPattern -> {"p"}

Values(attr) ==
    CASE attr = identifierPrivilege ->
            DOMAIN privilegeToResourceTypesMap \cup {privilegeTruncate}
      [] attr = identifierResourceType ->
            Range(allResources) \cup {resourceIndex}
      [] OTHER -> TextUpTo(ValueAlphabet(attr), MaxLen)

\* the settings of the optional attributes that respect ConflictsWith
RECURSIVE OptionalSettings(_)
OptionalSettings(n) ==
    IF n = 0 THEN {<<>>}
    ELSE LET attr == GrantOptionalAttrs[n]
             Free(s, v) ==
                v # <<>> =>
                    \A i \in 1..(n - 1) :
                        GrantOptionalAttrs[i] \in GrantConflictsWith[attr]
                            => s[i] = <<>>
         IN  UNION {{Append(s, v) : v \in {w \in Values(attr) : Free(s, w)}} :
                    s \in OptionalSettings(n - 1)}

GrantData ==
    {[resource |-> "cassandra_grant", id |-> <<>>,
      privilege |-> p, grantee |-> g, resource_type |-> r,
      keyspace_name |-> o[1], function_name |-> o[2], table_name |-> o[3],
      role_name |-> o[4], mbean_name |-> o[5], mbean_pattern |-> o[6]] :
        p \in Values(identifierPrivilege),
        g \in Values(identifierGrantee),
        r \in Values(identifierResourceType),
        o \in OptionalSettings(Len(GrantOptionalAttrs))}

\* the configurations of a keyspace: the combinations of the ordinary
\* values, and the names and strategies at the edges of the validators
KeyspaceData ==
    LET Keyspace(n, rs, so, dw) ==
            [resource |-> "cassandra_keyspace", id |-> <<>>, name |-> n,
             replication_strategy |-> rs, strategy_options |-> so,
             durable_writes |-> dw]
        k == <<"k">>
        rf == CHOOSE so \in StrategyOptionsValues : Cardinality(DOMAIN so) = 1
    IN  {Keyspace(n, rs, so, dw) :
            n \in TextUpTo({"k"}, MaxLen) \ {<<>>},
            rs \in {SimpleStrategy, NetworkTopologyStrategy},
            so \in StrategyOptionsValues,
            dw \in BOOLEAN}
        \cup
        {Keyspace(n, SimpleStrategy, rf, TRUE) :
            n \in {<<>>, systemKeyspace, <<"k", "-">>, <<"_", "0">>,
                   Repeat("k", 48), Repeat("k", 49)}}
        \cup
        {Keyspace(k, rs, rf, TRUE) :
            rs \in {<<>>, <<"X">>, SimpleStrategy \o <<"X">>,
                    <<"X">> \o SimpleStrategy,
                    <<"X">> \o NetworkTopologyStrategy,
                    NetworkTopologyStrategy \o <<"X">>}}

\* the passwords a configuration gives; Create and Update are called with
\* the configured password, never with the hash a Read stored
ConfiguredPasswords ==
    {<<>>, Repeat("p", 39), Repeat("p", 40), Repeat("p", 512),
     Repeat("p", 513), Repeat("p", 39) \o <<"'">>}

\* the configurations of a role: the combinations of the ordinary values,
\* and the names and passwords at the edges of the validators
RoleData ==
    LET Role(n, su, lg, pw) ==
            [resource |-> "cassandra_role", id |-> <<>>, name |-> n,
             super_user |-> su, login |-> lg, password |-> pw]
    IN  {Role(n, su, lg, Repeat("p", 40)) :
            n \in TextUpTo({"r"}, MaxLen) \ {<<>>},
            su \in BOOLEAN,
            lg \in BOOLEAN}
        \cup
        {Role(n, FALSE, TRUE, Repeat("p", 40)) :
            n \in {<<>>, Repeat("r", 256), Repeat("r", 257), <<"r", "'">>,
                   <<"r", "\"">>}}
        \cup
        {Role(<<"r">>, FALSE, TRUE, pw) : pw \in ConfiguredPasswords}

----------------------------------------------------------------------------
(* The state machine *)

RetNone == [op |-> "none", err |-> "nil", b |-> FALSE]
PlanNone == [attr |-> "none", action |-> "none"]

\* the package-level variables that hold the lookup tables, as the
\* package initialises them
PackageTables ==
    [privilegeToResourceTypesMap |-> privilegeToResourceTypesMap,
     validResources |-> validResources,
     resourcesThatRequireKeyspaceQualifier |->
        resourcesThatRequireKeyspaceQualifier,
     resourceTypeToIdentifier |-> resourceTypeToIdentifier,
     allPrivileges |-> allPrivileges,
     allResources |-> allResources,
     boolToAction |-> boolToAction]

Init ==
    /\ d \in GrantData \cup KeyspaceData \cup RoleData \cup ProviderData
    /\ cluster = [perms |-> {}, keyspaces |-> {}, roles |-> <<>>]
    /\ ret = RetNone
    /\ io = IoNone
    /\ plan = PlanNone
    /\ tables = PackageTables
    /\ diags = <<>>
    /\ meta = <<>>
    /\ granted = {}

\* a variant of Returns in which a handler rewrites an entry of a table
Returns_WritesTable(op, o, b) ==
    /\ d' = o.d
    /\ cluster' = o.cluster
    /\ ret' = [op |-> op, err |-> o.err, b |-> b]
    /\ io' = o.io
    /\ plan' = PlanNone
    /\ tables' = [tables EXCEPT !.boolToAction[FALSE] = <<"A", "L", "T", "E", "R">>]
    /\ diags' = <<>>
    /\ meta' = meta
    /\ granted' = IF o.err = "nil" /\ op = "resourceGrantCreate"
                  THEN granted \cup {o.io.grant[1]}
                  ELSE IF o.err = "nil" /\ op = "resourceGrantDelete"
                  THEN granted \ {o.io.grant[1]}
                  ELSE granted

\* a handler returns: it leaves the resource data and the cluster as its
\* outcome says; no handler assigns to a package-level table or to an
\* entry of one
\* (granted records the history: a successful resourceGrantCreate makes
\* its Grant the last one created, a successful resourceGrantDelete
\* removes it)
Returns(op, o, b) ==
    /\ d' = o.d
    /\ cluster' = o.cluster
    /\ ret' = [op |-> op, err |-> o.err, b |-> b]
    /\ io' = o.io
    /\ plan' = PlanNone
    /\ tables' = tables
    /\ diags' = <<>>
    /\ meta' = meta
    /\ granted' = IF o.err = "nil" /\ op = "resourceGrantCreate"
                  THEN granted \cup {o.io.grant[1]}
                  ELSE IF o.err = "nil" /\ op = "resourceGrantDelete"
                  THEN granted \ {o.io.grant[1]}
                  ELSE granted

GrantExists ==
    /\ d.resource = "cassandra_grant"
    /\ \E o \in resourceGrantExists(d, cluster) :
            Returns("resourceGrantExists", o, o.b)

GrantCreate ==
    /\ d.resource = "cassandra_grant"
    /\ \E o \in resourceGrantCreate(d, cluster) :
            Returns("resourceGrantCreate", o, FALSE)

GrantRead ==
    /\ d.resource = "cassandra_grant"
    /\ \E o \in resourceGrantRead(d, cluster) :
            Returns("resourceGrantRead", o, FALSE)

GrantDelete ==
    /\ d.resource = "cassandra_grant"
    /\ \E o \in resourceGrantDelete(d, cluster) :
            Returns("resourceGrantDelete", o, FALSE)

GrantUpdate ==
    /\ d.resource = "cassandra_grant"
    /\ \E o \in resourceGrantUpdate(d, cluster) :
            Returns("resourceGrantUpdate", o, FALSE)

\* the SDK plans a change of one attribute of a grant that was created and
\* that the cluster holds, from one valid configuration to another: a change of a ForceNew attribute is
\* planned as destroy-then-create, any other as a call of Update
GrantSchemaDiff ==
    /\ d.resource = "cassandra_grant"
    /\ d.id # <<>>
    /\ GrantSchemaValid(d)
    /\ parseData(d).err = "nil"
    /\ StatementIdentity(templateCreate(parseData(d).grant[1]), CQL.grant,
                         CQL.to) \in cluster.perms
    /\ \E attr \in GrantTextAttrs :
        /\ \E v \in Values(attr) :
                v # d[attr] /\ GrantSchemaValid([d EXCEPT ![attr] = v])
        /\ plan' = [attr |-> attr,
                    action |-> IF GrantForceNew[attr]
                               THEN "DestroyThenCreate" ELSE "Update"]
    /\ ret' = RetNone
    /\ io' = IoNone
    /\ diags' = <<>>
    /\ UNCHANGED <<d, cluster, tables, meta, granted>>

\* the SDK validates a configuration before it calls a handler: it applies
\* the ValidateFunc of every attribute that is set and has one
SchemaValidate ==
    /\ d.id = <<>>
    /\ diags' =
            CASE d.resource = "cassandra_grant" ->
                    [attr \in {a \in GrantTextAttrs :
                                a \in {identifierPrivilege, identifierGrantee,
                                       identifierResourceType}
                                \/ d[a] # <<>>} |->
                        GrantValidateFunc(attr, d[attr])]
              [] d.resource = "cassandra_keyspace" ->
                    [attr \in {"name", "replication_strategy"} |->
                        KeyspaceValidateFunc(attr, d[attr])]
              [] d.resource = "cassandra_role" ->
                    [attr \in {"name", "password"} |->
                        RoleValidateFunc(attr, d[attr])]
              [] d.resource = "provider" ->
                    [attr \in {"port"} |-> ProviderValidateFunc(attr, d[attr])]
    /\ ret' = [RetNone EXCEPT !.op = "ValidateFunc"]
    /\ io' = IoNone
    /\ plan' = PlanNone
    /\ UNCHANGED <<d, cluster, tables, meta, granted>>

KeyspaceExists ==
    /\ d.resource = "cassandra_keyspace"
    /\ KeyspaceSchemaValid(d)
    /\ \E o \in resourceKeyspaceExists(d, cluster) :
            Returns("resourceKeyspaceExists", o, o.b)

KeyspaceCreate ==
    /\ d.resource = "cassandra_keyspace"
    /\ KeyspaceSchemaValid(d)
    /\ \E o \in resourceKeyspaceCreate(d, cluster) :
            Returns("resourceKeyspaceCreate", o, FALSE)

KeyspaceRead ==
    /\ d.resource = "cassandra_keyspace"
    /\ KeyspaceSchemaValid(d)
    /\ \E o \in resourceKeyspaceRead(d, cluster) :
            Returns("resourceKeyspaceRead", o, FALSE)

KeyspaceDelete ==
    /\ d.resource = "cassandra_keyspace"
    /\ KeyspaceSchemaValid(d)
    /\ \E o \in resourceKeyspaceDelete(d, cluster) :
            Returns("resourceKeyspaceDelete", o, FALSE)

KeyspaceUpdate ==
    /\ d.resource = "cassandra_keyspace"
    /\ KeyspaceSchemaValid(d)
    /\ \E o \in resourceKeyspaceUpdate(d, cluster) :
            Returns("resourceKeyspaceUpdate", o, FALSE)

RoleExists ==
    /\ d.resource = "cassandra_role"
    /\ RoleValidateFunc("name", d.name)
    /\ \E o \in resourceRoleExists(d, cluster) :
            Returns("resourceRoleExists", o, o.b)

RoleCreate ==
    /\ d.resource = "cassandra_role"
    /\ d.password \in ConfiguredPasswords
    /\ RoleSchemaValid(d)
    /\ \E o \in resourceRoleCreate(d, cluster) :
            Returns("resourceRoleCreate", o, FALSE)

RoleRead ==
    /\ d.resource = "cassandra_role"
    /\ RoleValidateFunc("name", d.name)
    /\ \E o \in resourceRoleRead(d, cluster) :
            Returns("resourceRoleRead", o, FALSE)

RoleDelete ==
    /\ d.resource = "cassandra_role"
    /\ RoleValidateFunc("name", d.name)
    /\ \E o \in resourceRoleDelete(d, cluster) :
            Returns("resourceRoleDelete", o, FALSE)

RoleUpdate ==
    /\ d.resource = "cassandra_role"
    /\ d.password \in ConfiguredPasswords
    /\ RoleSchemaValid(d)
    /\ \E o \in resourceRoleUpdate(d, cluster) :
            Returns("resourceRoleUpdate", o, FALSE)

\* the SDK configures the provider once its configuration is valid, and
\* keeps what configureProvider returns as the meta of every handler
ProviderConfigure ==
    /\ d.resource = "provider"
    /\ ProviderValidateFunc("port", d.port)
    /\ meta' = <<configureProvider(d)>>
    /\ ret' = [RetNone EXCEPT !.op = "configureProvider"]
    /\ io' = IoNone
    /\ plan' = PlanNone
    /\ diags' = <<>>
    /\ UNCHANGED <<d, cluster, tables, granted>>

Next ==
    \/ GrantExists
    \/ GrantCreate
    \/ GrantRead
    \/ GrantDelete
    \/ GrantUpdate
    \/ GrantSchemaDiff
    \/ SchemaValidate
    \/ KeyspaceExists
    \/ KeyspaceCreate
    \/ KeyspaceRead
    \/ KeyspaceDelete
    \/ KeyspaceUpdate
    \/ RoleExists
    \/ RoleCreate
    \/ RoleRead
    \/ RoleDelete
    \/ RoleUpdate
    \/ ProviderConfigure

Spec == Init /\ [][Next]_vars

\* Several grants of one configuration.  Terraform calls the handlers
\* registered for cassandra_grant on every grant instance of the
\* configuration, one call at a time, all against the same cluster.

\* grants that differ from the first in one part of their identity: the
\* privilege, the resource type, the keyspace, the table, the grantee
Grants24 ==
    LET G(p, r, k, t, g) ==
            [resource |-> "cassandra_grant", id |-> <<>>,
             privilege |-> p, grantee |-> g, resource_type |-> r,
             keyspace_name |-> k, function_name |-> <<>>, table_name |-> t,
             role_name |-> <<>>, mbean_name |-> <<>>, mbean_pattern |-> <<>>]
    IN  {G(privilegeSelect, resourceTable, <<"k">>, <<"t">>, <<"g">>),
         G(privilegeModify, resourceTable, <<"k">>, <<"t">>, <<"g">>),
         G(privilegeSelect, resourceKeyspace, <<"k">>, <<"t">>, <<"g">>),
         G(privilegeSelect, resourceTable, <<"k", "k">>, <<"t">>, <<"g">>),
         G(privilegeSelect, resourceTable, <<"k">>, <<"t", "t">>, <<"g">>),
         G(privilegeSelect, resourceTable, <<"k">>, <<"t">>, <<"&">>)}

Init24 ==
    /\ d \in Grants24
    /\ cluster = [perms |-> {}, keyspaces |-> {}, roles |-> <<>>]
    /\ ret = RetNone
    /\ io = IoNone
    /\ plan = PlanNone
    /\ tables = PackageTables
    /\ diags = <<>>
    /\ meta = <<>>
    /\ granted = {}

\* the next call is for another grant instance, whose id is as its own
\* last successful Create or Delete left it
GrantInstance ==
    /\ \E g \in Grants24 :
        /\ [g EXCEPT !.id = d.id] # d
        /\ d' = SetId(g, IF parseData(g).grant[1] \in granted
                         THEN hash(SprintfGrant(parseData(g).grant[1]))
                         ELSE <<>>)
    /\ ret' = RetNone
    /\ io' = IoNone
    /\ plan' = PlanNone
    /\ diags' = <<>>
    /\ UNCHANGED <<cluster, tables, meta, granted>>

Next24 ==
    \/ GrantExists
    \/ GrantCreate
    \/ GrantRead
    \/ GrantDelete
    \/ GrantInstance

Spec24 == Init24 /\ [][Next24]_vars

----------------------------------------------------------------------------
(* Properties *)

GrantParsers ==
    {"resourceGrantExists", "resourceGrantCreate", "resourceGrantRead",
     "resourceGrantDelete"}

ValidationErrors ==
    {ErrNotApplicable, ErrNotApplicableValid, ErrKeyspaceNotSet,
     ErrIdentifierNotSet}

\* the (privilege, resource type) pairs of the compatibility table
Permitted(privilege, resourceType) ==
    /\ privilege \in DOMAIN privilegeToResourceTypesMap
    /\ resourceType \in Range(privilegeToResourceTypesMap[privilege])

\* C1: for every (privilege, resource_type) pair that is not in the
\* compatibility table, a privilege that is no key of it included, parseData
\* returns an error and no Grant, whatever the other attributes are; a grant
\* handler called with such data returns that error.
C1_NotInTableFails ==
    (d.resource = "cassandra_grant"
     /\ ~Permitted(d.privilege, d.resource_type)) =>
        /\ parseData(d).err \in {ErrNotApplicable, ErrNotApplicableValid}
        /\ parseData(d).grant = <<>>
        /\ ret.op \in GrantParsers =>
                /\ ret.err \in {ErrNotApplicable, ErrNotApplicableValid}
                /\ io.grant = <<>>

C1_Witness ==
    /\ ret.op = "resourceGrantCreate"
    /\ d.privilege = privilegeDescribe
    /\ d.resource_type = resourceKeyspace
    /\ d.keyspace_name # <<>>
    /\ d.grantee # <<>>
    /\ ret.err = ErrNotApplicableValid

\* C2: for a resource type that requires a keyspace qualifier (all
\* functions in keyspace, function, keyspace, table) and a privilege
\* permitted for it, parseData returns an error when keyspace_name is empty,
\* and every Grant it returns has a non-empty Keyspace.
C2_KeyspaceRequired ==
    (/\ d.resource = "cassandra_grant"
     /\ ret.op \in GrantParsers
     /\ Permitted(d.privilege, d.resource_type)
     /\ d.resource_type \in {resourceAllFunctionsInKeyspace, resourceFunction,
                             resourceKeyspace, resourceTable}) =>
        /\ d.keyspace_name = <<>> =>
                ret.err = ErrKeyspaceNotSet /\ io.grant = <<>>
        /\ io.grant # <<>> => io.grant[1].Keyspace # <<>>

C2_Witness ==
    /\ ret.op = "resourceGrantCreate"
    /\ d.privilege = privilegeSelect
    /\ d.resource_type = resourceTable
    /\ d.keyspace_name = <<>>
    /\ d.table_name # <<>>
    /\ ret.err = ErrKeyspaceNotSet

\* the identifier field the claim names for a resource type
ClaimedIdentifierField(resourceType) ==
    CASE resourceType = resourceFunction -> "function_name"
      [] resourceType = resourceMbean -> "mbean_name"
      [] resourceType = resourceMbeans -> "mbean_pattern"
      [] resourceType = resourceTable -> "table_name"
      [] resourceType = resourceRole -> "role_name"

\* C3: for a resource type that maps to an identifier field, parseData
\* returns an error when that field is empty, and every Grant it returns has
\* a non-empty Identifier that is the value of exactly that field.
C3_IdentifierRequired ==
    (/\ d.resource = "cassandra_grant"
     /\ ret.op \in GrantParsers
     /\ Permitted(d.privilege, d.resource_type)
     /\ d.resource_type \in {resourceFunction, resourceMbean, resourceMbeans,
                             resourceTable, resourceRole}) =>
        LET field == ClaimedIdentifierField(d.resource_type)
        IN  /\ d[field] = <<>> =>
                    ret.err \in ValidationErrors /\ io.grant = <<>>
            /\ io.grant # <<>> =>
                    /\ io.grant[1].Identifier # <<>>
                    /\ io.grant[1].Identifier = d[field]

C3_Witness ==
    /\ ret.op = "resourceGrantDelete"
    /\ d.privilege = privilegeSelect
    /\ d.resource_type = resourceMbeans
    /\ d.mbean_pattern = <<>>
    /\ d.mbean_name # <<>>
    /\ ret.err = ErrIdentifierNotSet

\* C4: resourceGrantUpdate returns an error for every input, opens no
\* session, sends no statement and leaves the resource data and the cluster
\* as they were.
C4_UpdateRejected ==
    [][ret'.op = "resourceGrantUpdate" =>
            /\ ret'.err = ErrUpdateNotSupported
            /\ io'.attempts = 0
            /\ io'.opened = 0
            /\ io'.sent = <<>>
            /\ d' = d
            /\ cluster' = cluster]_vars

C4_Witness ==
    /\ ret.op = "resourceGrantUpdate"
    /\ ret.err = ErrUpdateNotSupported
    /\ d.id # <<>>
    /\ cluster.perms # {}

\* C5: a change to any configurable attribute of a grant is planned as
\* destroy-then-create, because every attribute of the schema is ForceNew;
\* no change is planned as a call of Update.
C5_EveryChangeReplaces ==
    plan.attr # "none" => plan.action = "DestroyThenCreate"

\* the rendering the claim gives for a grant
Quote(s) == <<"\"">> \o s \o <<"\"">>
ClaimedRendering(verb, preposition, g) ==
    verb \o <<" ">> \o g.Privilege \o <<" ", "O", "N", " ">> \o g.ResourceType
    \o <<" ">>
    \o (IF g.Keyspace # <<>> THEN Quote(g.Keyspace) ELSE <<>>)
    \o (IF g.Keyspace # <<>> /\ g.Identifier # <<>> THEN <<".">> ELSE <<>>)
    \o (IF g.Identifier # <<>> THEN Quote(g.Identifier) ELSE <<>>)
    \o <<" ">> \o preposition \o <<" ">> \o Quote(g.Grantee)

\* C6: for every Grant returned by parseData the create rendering is exactly
\* GRANT <Privilege> ON <ResourceType>, a space, the quoted Keyspace if it
\* is non-empty, a dot if Keyspace and Identifier both are, the quoted
\* Identifier if it is non-empty, then TO and the quoted Grantee; REVOKE and
\* LIST have the same shape with FROM and OF.
C6_RenderingExact ==
    (d.resource = "cassandra_grant" /\ io.grant # <<>>) =>
        LET g == io.grant[1]
        IN  /\ templateCreate(g) =
                    ClaimedRendering(<<"G", "R", "A", "N", "T">>, <<"T", "O">>, g)
            /\ templateDelete(g) =
                    ClaimedRendering(<<"R", "E", "V", "O", "K", "E">>,
                                     <<"F", "R", "O", "M">>, g)
            /\ templateRead(g) =
                    ClaimedRendering(<<"L", "I", "S", "T">>, <<"O", "F">>, g)

Count(s, c) == Cardinality({i \in DOMAIN s : s[i] = c})

\* C7: every value the schema validators accept appears in the statement
\* sent character for character between one opening and one closing double
\* quote: the rendering alters no character of keyspace, identifier or
\* grantee, and the statement has no double quote besides those pairs.
C7_ValuesQuotedVerbatim ==
    (/\ d.resource = "cassandra_grant"
     /\ ret.op \in GrantParsers
     /\ io.sent # <<>>
     /\ GrantSchemaValid(d)) =>
        LET g == io.grant[1]
            stmt == io.sent[1]
            quoted == {v \in {g.Keyspace, g.Identifier, g.Grantee} : v # <<>>}
        IN  /\ \A v \in quoted : Contains(stmt, Quote(v))
            /\ Count(stmt, "\"") =
                    2 * Cardinality({f \in {"Keyspace", "Identifier", "Grantee"} :
                                        g[f] # <<>>})

\* a statement with its leading verb and the preposition before the grantee
\* replaced by common tokens; a statement without them is left as it is
Neutral(stmt, verb, prep) ==
    LET at == Occurrences(stmt, prep)
    IN  IF ~StartsWith(stmt, verb) \/ at = {} THEN stmt
        ELSE <<"VERB">> \o SubSeq(stmt, Len(verb) + 1, Min(at) - 1)
             \o <<"PREPOSITION">>
             \o SubSeq(stmt, Min(at) + Len(prep), Len(stmt))

\* C8: for every Grant the GRANT, LIST and REVOKE renderings are equal once
\* the leading verb and the preposition before the grantee are replaced by
\* a common token: they name the same privilege, resource type, keyspace,
\* identifier and grantee.
C8_RenderingsAgree ==
    (d.resource = "cassandra_grant" /\ io.grant # <<>>) =>
        LET g == io.grant[1]
            create == Neutral(templateCreate(g), <<"G", "R", "A", "N", "T">>,
                              <<" ", "T", "O", " ">>)
            read == Neutral(templateRead(g), <<"L", "I", "S", "T">>,
                            <<" ", "O", "F", " ">>)
            delete == Neutral(templateDelete(g), <<"R", "E", "V", "O", "K", "E">>,
                              <<" ", "F", "R", "O", "M", " ">>)
        IN  /\ Head(create) = "VERB"
            /\ create = read
            /\ read = delete

C8_Witness ==
    /\ ret.op = "resourceGrantExists"
    /\ ret.b
    /\ io.grant # <<>>
    /\ io.grant[1].Keyspace # <<>>
    /\ io.grant[1].Identifier # <<>>
    /\ io.sent = <<templateRead(io.grant[1])>>

\* C9: resourceGrantExists returns false and the error when validation or
\* session creation fails, without sending anything; otherwise it sends the
\* LIST rendering of the validated grant and nothing else, and returns true
\* exactly when the query returned more than zero rows.
C9_ExistsByRowCount ==
    ret.op = "resourceGrantExists" =>
        IF parseData(d).err # "nil"
        THEN ~ret.b /\ ret.err = parseData(d).err /\ io.sent = <<>>
                /\ io.attempts = 0
        ELSE IF io.opened = 0
        THEN ~ret.b /\ ret.err = ErrSession /\ io.sent = <<>>
        ELSE /\ io.sent = <<templateRead(parseData(d).grant[1])>>
             /\ ret.b <=> io.rows > 0

C9_Witness ==
    /\ ret.op = "resourceGrantExists"
    /\ ret.b
    /\ io.rows > 0
    /\ ret.err = "nil"

ClusterHandlers ==
    {"resourceGrantExists", "resourceGrantCreate", "resourceGrantRead",
     "resourceGrantDelete", "resourceKeyspaceExists", "resourceKeyspaceCreate",
     "resourceKeyspaceRead", "resourceKeyspaceDelete", "resourceKeyspaceUpdate",
     "resourceRoleExists", "resourceRoleCreate", "resourceRoleRead",
     "resourceRoleDelete", "resourceRoleUpdate"}

\* C10: every operation that talks to the cluster, once its input has
\* passed validation, asks for exactly one session from the provider's
\* cluster configuration, closes the session it got before it returns, and
\* uses no session it did not open itself.
C10_OneSessionPerOperation ==
    (/\ ret.op \in ClusterHandlers
     /\ ret.err \notin ValidationErrors \cup {ErrStrategyOptions}) =>
        /\ io.attempts = 1
        /\ io.closed = io.opened
        /\ io.sent # <<>> => io.opened = 1
        /\ ~io.metaSession

\* the failures the driver reports: of session creation, of a statement,
\* of a query
DriverFailures == {ErrSession, ErrQuery, ErrSyntax}

\* C11: in every operation an error the driver reported (session creation,
\* executing a statement, reading query results) is what the operation
\* returns; none returns nil, or an answer with a nil error, after it.
C11_DriverErrorsPropagate ==
    io.driverErr \in DriverFailures => ret.err = io.driverErr

\* the statements that read: LIST and the select of readRole
IsRead(stmt) == StartsWith(stmt, CQL.list) \/ stmt = readRoleQuery

\* C12: an operation asks for a session at most once, sends no statement
\* twice, sends at most one state-changing statement, and sends nothing
\* after a statement has failed.
C12_NoRetries ==
    /\ io.attempts <= 1
    /\ \A i, j \in DOMAIN io.sent : i # j => io.sent[i] # io.sent[j]
    /\ Cardinality({i \in DOMAIN io.sent : ~IsRead(io.sent[i])}) <= 1
    /\ io.failedAt # 0 => io.failedAt = Len(io.sent)

C12_Witness ==
    /\ ret.op = "resourceKeyspaceUpdate"
    /\ ret.err = ErrQuery
    /\ io.failedAt = 1
    /\ Len(io.sent) = 1
    /\ io.attempts = 1

\* the statement the claim gives for a state-changing handler: the verb and
\* the configured name
ClaimedVerb(op, name) ==
    CASE op = "resourceKeyspaceCreate" -> CQL.createKeyspace \o name \o <<" ">>
      [] op = "resourceKeyspaceUpdate" -> CQL.alterKeyspace \o name \o <<" ">>
      [] op = "resourceKeyspaceDelete" -> fmtDropKeyspace \o name
      [] op = "resourceRoleCreate" -> CQL.createRole \o name \o <<"'">>
      [] op = "resourceRoleUpdate" -> CQL.alterRole \o name \o <<"'">>
      [] op = "resourceRoleDelete" -> fmtDropRole \o name \o <<"'">>

\* C13: the state-changing statement of a keyspace or role handler is CREATE
\* for Create, ALTER for Update and DROP for Delete, of KEYSPACE or ROLE,
\* and names the configured resource.
C13_CreateAlterDrop ==
    (/\ ret.op \in {"resourceKeyspaceCreate", "resourceKeyspaceUpdate",
                    "resourceKeyspaceDelete", "resourceRoleCreate",
                    "resourceRoleUpdate", "resourceRoleDelete"}
     /\ io.sent # <<>>) =>
        StartsWith(io.sent[1], ClaimedVerb(ret.op, d.name))

C15_StrategyExact ==
    (d.resource = "cassandra_keyspace"
     /\ "replication_strategy" \in DOMAIN diags) =>
        (diags["replication_strategy"] <=>
            d.replication_strategy \in
                {<<"S", "i", "m", "p", "l", "e", "S", "t", "r", "a", "t", "e", "g", "y">>,
                 <<"N", "e", "t", "w", "o", "r", "k", "T", "o", "p", "o",
                   "l", "o", "g", "y", "S", "t", "r", "a", "t", "e", "g",
                   "y">>})

\* C16: the port validator accepts a port exactly when it is between 1 and
\* 65535 inclusive.
C16_PortRange ==
    (d.resource = "provider" /\ "port" \in DOMAIN diags) =>
        (diags["port"] <=> (d.port >= 1 /\ d.port <= 65535))

\* C17: a privilege passes the privilege validator, and the privilege lookup
\* of parseData, exactly when it is a member of allPrivileges, the list the
\* description and the error message give.
C17_PrivilegesAsListed ==
    d.resource = "cassandra_grant" =>
        /\ identifierPrivilege \in DOMAIN diags =>
                (diags[identifierPrivilege] <=>
                    d.privilege \in Range(allPrivileges))
        /\ ret.op \in GrantParsers =>
                (ret.err # ErrNotApplicable <=>
                    d.privilege \in Range(allPrivileges))

\* a statement that names keyspace name after the word KEYSPACE
NamesKeyspace(stmt, name) ==
    LET word == <<" ", "K", "E", "Y", "S", "P", "A", "C", "E", " ">> \o name
    IN  \E i \in Occurrences(stmt, word) :
            \/ i + Len(word) - 1 = Len(stmt)
            \/ stmt[i + Len(word)] = " "

C19_RoleQuoting ==
    d.resource = "cassandra_role" =>
        /\ "name" \in DOMAIN diags =>
                /\ diags["name"] <=>
                        /\ Len(d.name) >= 1
                        /\ Len(d.name) <= 256
                        /\ \A i \in DOMAIN d.name : d.name[i] # "'"
                /\ diags["password"] <=>
                        /\ Len(d.password) >= 40
                        /\ Len(d.password) <= 512
                        /\ \A i \in DOMAIN d.password : d.password[i] # "'"
        /\ (ret.op \in {"resourceRoleCreate", "resourceRoleUpdate"}
            /\ io.sent # <<>>) =>
                /\ Count(io.sent[1], "'") = 4
                /\ Quoted(io.sent[1], 1) = d.name
                /\ Len(Quoted(io.sent[1], 3)) >= 40
                /\ Len(Quoted(io.sent[1], 3)) <= 512
        /\ (ret.op = "resourceRoleDelete" /\ io.sent # <<>>) =>
                /\ Count(io.sent[1], "'") = 2
                /\ Quoted(io.sent[1], 1) = d.name

C19_Witness ==
    /\ d.resource = "cassandra_role"
    /\ ret.op = "resourceRoleCreate"
    /\ ret.err = "nil"
    /\ Len(d.name) = 256
    /\ Len(Quoted(io.sent[1], 3)) = 40

\* C20: keyspace Create and Update with an empty strategy_options map fail
\* with the "Must specify strategy options" error before any session is
\* asked for, send nothing and leave the resource data, the id included, as
\* it was; with a non-empty map the statement sent has the replication
\* class once, every option key and value once, and the configured
\* durable_writes value.
C20_StrategyOptions ==
    [][ret'.op \in {"resourceKeyspaceCreate", "resourceKeyspaceUpdate"} =>
        IF DOMAIN d.strategy_options = {}
        THEN /\ ret'.err = ErrStrategyOptions
             /\ io'.attempts = 0
             /\ io'.sent = <<>>
             /\ d' = d
             /\ cluster' = cluster
        ELSE /\ ret'.err # ErrStrategyOptions
             /\ io'.sent # <<>> =>
                    LET stmt == io'.sent[1]
                        class == <<"'", "c", "l", "a", "s", "s", "'", " ", ":", " ", "'">>
                                 \o d.replication_strategy \o <<"'">>
                        option(k) == <<",", " ", "'">> \o k
                                     \o <<"'", " ", ":", " ", "'">>
                                     \o d.strategy_options[k] \o <<"'">>
                        writes == <<"D", "U", "R", "A", "B", "L", "E", "_", "W", "R",
                                    "I", "T", "E", "S", " ", "=", " ">>
                                  \o (IF d.durable_writes
                                      THEN <<"t", "r", "u", "e">>
                                      ELSE <<"f", "a", "l", "s", "e">>)
                    IN  /\ Cardinality(Occurrences(stmt, class)) = 1
                        /\ \A k \in DOMAIN d.strategy_options :
                                Cardinality(Occurrences(stmt, option(k))) = 1
                        /\ Cardinality(Occurrences(stmt, <<"'", " ", ":", " ", "'">>))
                                = 1 + Cardinality(DOMAIN d.strategy_options)
                        /\ Cardinality(Occurrences(stmt, writes)) = 1
                        /\ SubSeq(stmt, Len(stmt) - Len(writes) + 1, Len(stmt))
                                = writes]_vars

C20_Witness ==
    /\ ret.op = "resourceKeyspaceCreate"
    /\ ret.err = ErrStrategyOptions
    /\ DOMAIN d.strategy_options = {}
    /\ io.attempts = 0
    /\ d.id = <<>>

\* C21: resourceKeyspaceExists answers true exactly when the keyspace
\* metadata lookup succeeded, that is when the cluster holds the keyspace:
\* false with no error when the driver says the keyspace does not exist,
\* true when it is there.
C21_ExistsIffLookupSucceeds ==
    (/\ ret.op = "resourceKeyspaceExists"
     /\ io.opened = 1
     /\ io.driverErr \notin DriverFailures) =>
        /\ ret.err = "nil"
        /\ ret.b <=> d.name \in cluster.keyspaces

\* C22: a grant handler that parses the resource data (Exists, Create,
\* Read, Delete) does so before it touches the cluster: when parseData
\* fails it returns that error, has asked for no session and has sent
\* nothing; every statement it sends is rendered from a Grant whose
\* pair is permitted and whose required keyspace and identifier are set.
C22_ParseBeforeCluster ==
    (d.resource = "cassandra_grant" /\ ret.op \in GrantParsers) =>
        /\ parseData(d).err # "nil" =>
                /\ ret.err = parseData(d).err
                /\ io.attempts = 0
                /\ io.opened = 0
                /\ io.sent = <<>>
        /\ io.sent # <<>> =>
                /\ io.grant # <<>>
                /\ LET g == io.grant[1]
                   IN  /\ Permitted(g.Privilege, g.ResourceType)
                       /\ g.ResourceType \in
                            {resourceAllFunctionsInKeyspace, resourceFunction,
                             resourceKeyspace, resourceTable} =>
                                g.Keyspace # <<>>
                       /\ g.ResourceType \in
                            {resourceFunction, resourceMbean, resourceMbeans,
                             resourceTable, resourceRole} =>
                                g.Identifier # <<>>
                       /\ {io.sent[i] : i \in DOMAIN io.sent} \subseteq
                            {templateCreate(g), templateDelete(g),
                             templateRead(g)}

C22_Witness ==
    /\ ret.op = "resourceGrantDelete"
    /\ d.privilege = privilegeSelect
    /\ d.resource_type = resourceRole
    /\ ret.err \in {ErrNotApplicable, ErrNotApplicableValid}
    /\ io.attempts = 0
    /\ io.sent = <<>>

\* C23: resourceGrantCreate and resourceKeyspaceCreate set the resource id
\* only when their statement succeeded: a Create of a resource without an
\* id that returns an error leaves it without one.
C23_IdOnlyOnSuccess ==
    [][(/\ ret'.op \in {"resourceGrantCreate", "resourceKeyspaceCreate"}
        /\ ret'.err # "nil"
        /\ d.id = <<>>) => d'.id = <<>>]_vars

\* C24: against a cluster that applies GRANT and REVOKE and whose LIST has
\* a row exactly for what is granted, after any sequence of successful
\* Creates and Deletes of grants with different identities,
\* resourceGrantExists answers true for a grant exactly when the last
\* successful change of that same grant was a Create; the changes of the
\* other grants do not alter its answer.
C24_ExistsFollowsLastChange ==
    (/\ d.resource = "cassandra_grant"
     /\ ret.op = "resourceGrantExists"
     /\ ret.err = "nil") =>
        (ret.b <=> io.grant[1] \in granted)

C24_Witness ==
    /\ ret.op = "resourceGrantExists"
    /\ ret.err = "nil"
    /\ ~ret.b
    /\ d.grantee = <<"&">>
    /\ Cardinality(granted) = 3
    /\ \E g \in granted : g.Grantee = <<"g">> /\ g.Keyspace = <<"k", "k">>

\* C29: configureProvider passes the configured hosts through unchanged:
\* the host list of the cluster configuration, and the list the whitelist
\* host filter is built from, are the configured hosts in the configured
\* order, with no other and no empty entry.
C29_HostsUnchanged ==
    (d.resource = "provider" /\ ret.op = "configureProvider") =>
        /\ meta # <<>>
        /\ meta[1].Hosts = d.hosts
        /\ meta[1].HostFilter = d.hosts
        /\ \A i \in DOMAIN meta[1].Hosts : meta[1].Hosts[i] # <<>>

\* C25: a Grant carries only what its resource type uses: its Keyspace is
\* non-empty exactly for the types that require a keyspace qualifier and
\* its Identifier exactly for the types that map to an identifier field;
\* the values given for the fields the type does not use are in neither
\* the Grant, nor the statements rendered from it, nor the id.
C25_OnlyWhatTypeUses ==
    (/\ d.resource = "cassandra_grant"
     /\ ret.op \in GrantParsers
     /\ io.grant # <<>>) =>
        LET g == io.grant[1]
            usesKeyspace ==
                g.ResourceType \in
                    {resourceAllFunctionsInKeyspace, resourceFunction,
                     resourceKeyspace, resourceTable}
            usesIdentifier ==
                g.ResourceType \in
                    {resourceFunction, resourceMbean, resourceMbeans,
                     resourceTable, resourceRole}
            Unused(attr) ==
                \/ attr = "keyspace_name" /\ ~usesKeyspace
                \/ /\ attr \in {"function_name", "table_name", "role_name",
                                 "mbean_name", "mbean_pattern"}
                   /\ usesIdentifier =>
                        attr # ClaimedIdentifierField(g.ResourceType)
            used == [attr \in DOMAIN d |->
                        IF Unused(attr) THEN <<>> ELSE d[attr]]
            h == parseData(used).grant
        IN  /\ g.Keyspace # <<>> <=> usesKeyspace
            /\ g.Identifier # <<>> <=> usesIdentifier
            /\ h = io.grant
            /\ {io.sent[i] : i \in DOMAIN io.sent} \subseteq
                    {templateCreate(h[1]), templateDelete(h[1]),
                     templateRead(h[1])}
            /\ d.id # <<>> => d.id = hash(SprintfGrant(h[1]))

C25_Witness ==
    /\ ret.op = "resourceGrantCreate"
    /\ ret.err = "nil"
    /\ d.resource_type = resourceAllFunctions
    /\ d.keyspace_name # <<>>
    /\ d.function_name # <<>>
    /\ io.grant[1].Keyspace = <<>>
    /\ io.grant[1].Identifier = <<>>
    /\ io.sent # <<>>
    /\ d.id # <<>>

\* C26: the ConflictsWith rules agree with parseData: for every permitted
\* (privilege, resource type) pair the configuration that sets exactly the
\* fields the resource type requires passes the schema, its conflict rules
\* included, and parseData; and the rules are symmetric: an attribute is in
\* the conflict list of another exactly when that one is in its own.
C26_ConflictsConsistent ==
    (/\ d.resource = "cassandra_grant"
     /\ Permitted(d.privilege, d.resource_type)) =>
        LET rt == d.resource_type
            Required(attr) ==
                \/ attr = "keyspace_name" /\
                        rt \in {resourceAllFunctionsInKeyspace,
                                resourceFunction, resourceKeyspace,
                                resourceTable}
                \/ /\ rt \in {resourceFunction, resourceMbean, resourceMbeans,
                                resourceTable, resourceRole}
                   /\ attr = ClaimedIdentifierField(rt)
            cfg == [attr \in DOMAIN d |->
                        IF attr \in {"resource", "id", "privilege",
                                     "resource_type"}
                        THEN d[attr]
                        ELSE IF attr = "grantee" THEN <<"g">>
                        ELSE IF Required(attr)
                        THEN <<CHOOSE c \in ValueAlphabet(attr) : TRUE>>
                        ELSE <<>>]
        IN  /\ GrantSchemaValid(cfg)
            /\ parseData(cfg).err = "nil"
            /\ \A a, b \in GrantTextAttrs :
                    b \in GrantConflictsWith[a] <=> a \in GrantConflictsWith[b]

C26_Witness ==
    /\ ret.op = "resourceGrantCreate"
    /\ ret.err = "nil"
    /\ GrantSchemaValid(d)
    /\ d.privilege = privilegeExecute
    /\ d.resource_type = resourceFunction
    /\ d.keyspace_name # <<>>
    /\ d.function_name # <<>>
    /\ d.table_name = <<>>

\* C27: resourceRoleCreateOrUpdate leaves the resource data as it was when
\* it returns an error; when it returns nil the id is the role name, name,
\* super_user and login are the configured values, and password is the
\* salted hash the cluster holds for the role.
C27_RoleDataAfterCreateOrUpdate ==
    [][ret'.op \in {"resourceRoleCreate", "resourceRoleUpdate"} =>
        IF ret'.err # "nil"
        THEN d' = d
        ELSE /\ d'.id = d.name
             /\ d'.name = d.name
             /\ d'.super_user = d.super_user
             /\ d'.login = d.login
             /\ d.name \in DOMAIN cluster'.roles
             /\ d'.password = cluster'.roles[d.name].salted_hash]_vars

\* C28: resourceGrantRead only reads: when the grant exists it returns nil
\* and leaves the id and every attribute as they were; when LIST has no
\* row it returns "Grant does not exist" and changes nothing; the cluster
\* is as before in both cases.
C28_ReadOnlyReads ==
    [][ret'.op = "resourceGrantRead" =>
        /\ d' = d
        /\ cluster' = cluster
        /\ (io'.opened = 1 /\ io'.driverErr = "nil") =>
                IF io'.rows > 0
                THEN ret'.err = "nil"
                ELSE ret'.err = ErrGrantDoesNotExist]_vars

C28_Witness ==
    /\ ret.op = "resourceGrantRead"
    /\ ret.err = ErrGrantDoesNotExist
    /\ d.id # <<>>
    /\ d.resource_type = resourceTable
    /\ io.rows = 0
    /\ io.sent # <<>>
    /\ cluster.perms = {}

====
